---- MODULE Spec2Model ----
(***************************************************************************)
(* A model of crm-backend/main.py: the four tools of the HCP CRM agent     *)
(* (log_interaction, search_hcp, edit_interaction, check_compliance), the  *)
(* MySQL tables they work on, and the /chat turn that runs the agent and   *)
(* extracts the form data from its tool calls.                             *)
(*                                                                         *)
(* Result texts are the code's, without their leading status glyph, which  *)
(* the module's character set cannot hold.                                 *)
(***************************************************************************)
EXTENDS Integers, Sequences, FiniteSets, TLC

VARIABLES
    rows,        \* the interactions table, in insertion order
    last,        \* the last tool invocation and what it did (history)
    phase,       \* where the current /chat turn is
    messages,    \* result["messages"] of the running agent
    pos,         \* the tool call of the last AI message being executed
    executed,    \* the tool calls dispatched this turn, in order (history)
    answer,      \* what chat_endpoint returned
    text,        \* the text under compliance scan
    scanned      \* the scan's result, once made

vars == <<rows, last, phase, messages, pos, executed, answer, text, scanned>>

(***************************************************************************)
(* Bounds of the model.                                                    *)
(***************************************************************************)
MaxRows == 2         \* rows the interactions table may hold
MaxCalls == 3        \* tool calls the agent may emit in one turn
MaxFrags == 3        \* fragments a scanned text is made of

(***************************************************************************)
(* Values.                                                                 *)
(***************************************************************************)
\* Python's None (a parameter's default in edit_interaction), which is not
\* the string "None" the prompt uses for "not mentioned".
PyNone == "<None>"

\* A parameter the call does not pass.
Absent == "<absent>"

\* The parameters of log_interaction and edit_interaction, in order.
Fields == <<"hcp_name", "type", "date", "topics", "sentiment", "outcomes">>

FieldSet == {Fields[i] : i \in 1..Len(Fields)}

\* The column of the interactions table each parameter is written to.
Column(f) ==
    CASE f = "hcp_name" -> "hcp_name"
      [] f = "type" -> "interaction_type"
      [] f = "date" -> "interaction_date"
      [] f = "topics" -> "topics_discussed"
      [] f = "sentiment" -> "sentiment"
      [] f = "outcomes" -> "outcomes"

\* What the agent may do with each parameter when it logs.
LogOption ==
    [hcp_name |-> {Absent, "None", "Dr. Sharma"},
     type |-> {Absent, "Call"},
     date |-> {"2025-01-10"},
     topics |-> {Absent, "A"},
     sentiment |-> {Absent},
     outcomes |-> {Absent}]

\* What the agent may do with each parameter when it edits.
EditOption ==
    [hcp_name |-> {Absent, "Dr. Rao"},
     type |-> {Absent, "None"},
     date |-> {Absent, ""},
     topics |-> {Absent, "None"},
     sentiment |-> {Absent, "None", "Positive"},
     outcomes |-> {Absent, "None"}]

\* The argument mapping m with parameter f passed as v.
With(m, f, v) ==
    IF v = Absent THEN m
    ELSE [g \in DOMAIN m \cup {f} |-> IF g = f THEN v ELSE m[g]]

\* The argument mappings (tool_call['args']) over the first i parameters.
RECURSIVE ArgMaps(_, _)
ArgMaps(i, option) ==
    IF i = 0 THEN {<<>>}
    ELSE {With(m, Fields[i], v) :
            m \in ArgMaps(i - 1, option), v \in option[Fields[i]]}

LogArgs == ArgMaps(Len(Fields), LogOption)

EditArgs == ArgMaps(Len(Fields), EditOption)

\* How the store answers one invocation: it works, the connection fails, or
\* the statement fails.
Faults == {"none", "connect", "execute"}

ErrorText(fault) ==
    IF fault = "connect" THEN "Can't connect to MySQL server"
    ELSE "statement failed"

(***************************************************************************)
(* The interactions table.                                                 *)
(***************************************************************************)
\* AUTO_INCREMENT: the identifier of the next inserted row.
NextId(table) ==
    IF table = <<>> THEN 1
    ELSE 1 + (CHOOSE m \in {table[i].id : i \in 1..Len(table)} :
                 \A i \in 1..Len(table) : table[i].id <= m)

\* INSERT INTO interactions (...) VALUES (...)
Insert(table, val) ==
    Append(table,
           [id |-> NextId(table),
            hcp_name |-> val[1],
            interaction_type |-> val[2],
            interaction_date |-> val[3],
            topics_discussed |-> val[4],
            sentiment |-> val[5],
            outcomes |-> val[6]])

\* A mutant of TargetRows: the UPDATE without its ORDER BY id DESC LIMIT 1.
TargetRowsNoLimit(table) ==
    1..Len(table)

\* ORDER BY id DESC LIMIT 1: the positions the UPDATE writes.
TargetRows(table) ==
    {i \in 1..Len(table) : \A j \in 1..Len(table) : table[j].id <= table[i].id}

\* UPDATE interactions SET <updates> ORDER BY id DESC LIMIT 1
\* updates: the parameters set, in order; values: their values.
Update(table, updates, values) ==
    LET set(r) ==
          [c \in DOMAIN r |->
             IF \E k \in 1..Len(updates) : Column(updates[k]) = c
             THEN values[CHOOSE k \in 1..Len(updates) : Column(updates[k]) = c]
             ELSE r[c]]
    IN  [i \in 1..Len(table) |->
           IF i \in TargetRows(table) THEN set(table[i]) ELSE table[i]]

(***************************************************************************)
(* The tools. Each gives what one invocation does: the table after it,     *)
(* how it ended ("return" with a text, "raise" with an exception leaving   *)
(* the function, "rejected" when the call does not fit the signature and   *)
(* the body never runs), and the store calls it issued.                    *)
(***************************************************************************)
Outcome(table, kind, txt, calls) ==
    [rows |-> table, kind |-> kind, text |-> txt, calls |-> calls]

\* A mutant of LogDefault: no default for the optional parameters' values.
LogDefaultBlank(f) ==
    ""

\* The default of a parameter of log_interaction the call leaves out.
LogDefault(f) ==
    "None"

\* The parameters of log_interaction without a default.
LogRequired == {"hcp_name", "type", "date"}

log_interaction(args, fault, table) ==
    LET p(f) == IF f \in DOMAIN args THEN args[f] ELSE LogDefault(f)
        val == <<p("hcp_name"), p("type"), p("date"),
                 p("topics"), p("sentiment"), p("outcomes")>>
    IN  IF ~(LogRequired \subseteq DOMAIN args)
        THEN Outcome(table, "rejected", "missing required argument", <<>>)
        ELSE IF fault = "connect"
        THEN Outcome(table, "return",
                     "Error logging interaction: " \o ErrorText(fault),
                     <<"connect">>)
        ELSE IF fault = "execute"
        THEN Outcome(table, "return",
                     "Error logging interaction: " \o ErrorText(fault),
                     <<"connect", "execute">>)
        ELSE Outcome(Insert(table, val), "return",
                     "Interaction logged successfully.",
                     <<"connect", "execute", "commit">>)

\* A mutant of Included: the test without its comparison with "None".
IncludedAnyText(v) ==
    v # PyNone /\ v # ""

\* if x and x != "None": the parameter goes into the UPDATE.
Included(v) ==
    v # PyNone /\ v # "" /\ v # "None"

edit_interaction(args, fault, table) ==
    LET p(f) == IF f \in DOMAIN args THEN args[f] ELSE PyNone
        updates == SelectSeq(Fields, LAMBDA f : Included(p(f)))
        values == [k \in 1..Len(updates) |-> p(updates[k])]
    IN  IF fault = "connect"
        THEN Outcome(table, "return",
                     "Error updating: " \o ErrorText(fault), <<"connect">>)
        ELSE IF updates = <<>>
        THEN Outcome(table, "return", "No changes requested.", <<"connect">>)
        ELSE IF fault = "execute"
        THEN Outcome(table, "return",
                     "Error updating: " \o ErrorText(fault),
                     <<"connect", "execute">>)
        ELSE Outcome(Update(table, updates, values), "return",
                     "Interaction updated in database.",
                     <<"connect", "execute", "commit">>)

(***************************************************************************)
(* Text. A text is the sequence of its characters.                         *)
(***************************************************************************)
Upper == <<"A","B","C","D","E","F","G","H","I","J","K","L","M",
           "N","O","P","Q","R","S","T","U","V","W","X","Y","Z">>

LowerCase == <<"a","b","c","d","e","f","g","h","i","j","k","l","m",
               "n","o","p","q","r","s","t","u","v","w","x","y","z">>

\* A mutant of Lower: the scan without its text.lower().
LowerNot(s) ==
    s

\* str.lower()
Lower(s) ==
    [i \in 1..Len(s) |->
       IF \E k \in 1..26 : Upper[k] = s[i]
       THEN LowerCase[CHOOSE k \in 1..26 : Upper[k] = s[i]]
       ELSE s[i]]

\* w in s
Contains(s, w) ==
    \E i \in 0..(Len(s) - Len(w)) : \A j \in 1..Len(w) : s[i + j] = w[j]

\* The characters of a term of risky_keywords.
Chars(word) ==
    CASE word = "guarantee" -> <<"g","u","a","r","a","n","t","e","e">>
      [] word = "cure" -> <<"c","u","r","e">>
      [] word = "miracle" -> <<"m","i","r","a","c","l","e">>
      [] word = "off-label" -> <<"o","f","f","-","l","a","b","e","l">>

\* str() of a list of strings, as the f-string renders flagged.
RECURSIVE PyItems(_)
PyItems(list) ==
    IF list = <<>> THEN ""
    ELSE IF Len(list) = 1 THEN "'" \o list[1] \o "'"
    ELSE "'" \o list[1] \o "', " \o PyItems(Tail(list))

PyList(list) ==
    "[" \o PyItems(list) \o "]"

(***************************************************************************)
(* check_compliance                                                        *)
(***************************************************************************)
risky_keywords == <<"guarantee", "cure", "miracle", "off-label">>

\* [word for word in risky_keywords if word in text.lower()]
Flagged(txt) ==
    SelectSeq(risky_keywords, LAMBDA word : Contains(Lower(txt), Chars(word)))

check_compliance(txt, table) ==
    IF Flagged(txt) # <<>>
    THEN Outcome(table, "return",
                 "COMPLIANCE WARNING: Found restricted terms: "
                    \o PyList(Flagged(txt)) \o ". Please rephrase.",
                 <<>>)
    ELSE Outcome(table, "return", "Compliance Check Passed.", <<>>)

(***************************************************************************)
(* search_hcp                                                              *)
(***************************************************************************)
\* The hcp_directory table: read, never written.
hcp_directory ==
    <<[name |-> "Dr. Sharma", chars |-> <<"D","r","."," ","S","h","a","r","m","a">>,
       specialty |-> "Cardiology", hospital |-> "City Hospital"],
      [name |-> "Dr. Rao", chars |-> <<"D","r","."," ","R","a","o">>,
       specialty |-> "Oncology", hospital |-> "Apollo"] >>

\* The name fragments the agent may search for.
Queries == {<<"s","h","a","r","m","a">>, <<"D","r",".">>, <<"x","y","z">>}

\* SELECT name, specialty, hospital FROM hcp_directory WHERE name LIKE '%q%'
\* (MySQL's default collation compares without regard to case).
Select(name_query) ==
    SelectSeq(hcp_directory,
              LAMBDA e : Contains(Lower(e.chars), Lower(name_query)))

\* str() of the fetched rows.
RECURSIVE PyTuples(_)
PyTuples(result) ==
    IF result = <<>> THEN ""
    ELSE "(" \o PyItems(<<result[1].name, result[1].specialty, result[1].hospital>>)
             \o ")" \o (IF Len(result) = 1 THEN "" ELSE ", ")
             \o PyTuples(Tail(result))

\* No try/except here: an error of get_db() or of cursor.execute() leaves
\* the function as an exception.
search_hcp(name_query, fault, table) ==
    IF fault = "connect"
    THEN Outcome(table, "raise", ErrorText(fault), <<"connect">>)
    ELSE IF fault = "execute"
    THEN Outcome(table, "raise", ErrorText(fault), <<"connect", "execute">>)
    ELSE Outcome(table, "return",
                 IF Select(name_query) # <<>>
                 THEN "[" \o PyTuples(Select(name_query)) \o "]"
                 ELSE "No HCP found.",
                 <<"connect", "execute">>)

(***************************************************************************)
(* One tool invocation.                                                    *)
(***************************************************************************)
\* The texts the agent may hand to check_compliance during a turn.
Notes == {<<"c","u","r","e">>, <<"s","a","f","e">>}

\* tools = [log_interaction, search_hcp, edit_interaction, check_compliance]
tools == <<"log_interaction", "search_hcp", "edit_interaction", "check_compliance">>

\* What calling the tool named `name` with `args` does to `table`.
Invoke(name, args, fault, table) ==
    CASE name = "log_interaction" -> log_interaction(args, fault, table)
      [] name = "search_hcp" -> search_hcp(args.name_query, fault, table)
      [] name = "edit_interaction" -> edit_interaction(args, fault, table)
      [] name = "check_compliance" -> check_compliance(args.text, table)

\* The record of an invocation: the call, the table before it, its outcome.
Record(name, args, fault, table) ==
    LET out == Invoke(name, args, fault, table)
    IN  [op |-> name, args |-> args, fault |-> fault, before |-> table,
         kind |-> out.kind, text |-> out.text, calls |-> out.calls]

NoCall == [op |-> "none", args |-> <<>>, fault |-> "none", before |-> <<>>,
           kind |-> "none", text |-> "", calls |-> <<>>]

NoAnswer == [response |-> "", form_data |-> <<>>, sent |-> FALSE]

NoScan == [done |-> FALSE, text |-> ""]

(***************************************************************************)
(* The tools, called one after another on the store.                       *)
(***************************************************************************)
Init ==
    /\ rows = <<>>
    /\ last = NoCall
    /\ phase = "Idle"
    /\ messages = <<>>
    /\ pos = 0
    /\ executed = <<>>
    /\ answer = NoAnswer
    /\ text = <<>>
    /\ scanned = NoScan

\* Each action is one tool called and run to its end.
Log ==
    \E args \in LogArgs, fault \in Faults :
        /\ last = NoCall
        /\ Len(log_interaction(args, fault, rows).rows) <= MaxRows
        /\ rows' = log_interaction(args, fault, rows).rows
        /\ last' = Record("log_interaction", args, fault, rows)
        /\ UNCHANGED <<phase, messages, pos, executed, answer, text, scanned>>

Edit ==
    \E args \in EditArgs, fault \in Faults :
        /\ last = NoCall
        /\ rows' = edit_interaction(args, fault, rows).rows
        /\ last' = Record("edit_interaction", args, fault, rows)
        /\ UNCHANGED <<phase, messages, pos, executed, answer, text, scanned>>

Search ==
    \E q \in Queries, fault \in Faults :
        /\ last = NoCall
        /\ rows' = search_hcp(q, fault, rows).rows
        /\ last' = Record("search_hcp", [name_query |-> q], fault, rows)
        /\ UNCHANGED <<phase, messages, pos, executed, answer, text, scanned>>

CheckCompliance ==
    \E t \in Notes :
        /\ last = NoCall
        /\ rows' = check_compliance(t, rows).rows
        /\ last' = Record("check_compliance", [text |-> t], "none", rows)
        /\ UNCHANGED <<phase, messages, pos, executed, answer, text, scanned>>

\* The caller takes the tool's result.
Return ==
    /\ last # NoCall
    /\ last' = NoCall
    /\ UNCHANGED <<rows, phase, messages, pos, executed, answer, text, scanned>>

Next ==
    \/ Log
    \/ Edit
    \/ Search
    \/ CheckCompliance
    \/ Return

Spec == Init /\ [][Next]_vars

(***************************************************************************)
(* The /chat turn: chat_endpoint runs the agent (the model is asked, the   *)
(* tool calls of its answer are executed in order, and it is asked again,  *)
(* until it answers without tool calls) and then extracts the form data.   *)
(***************************************************************************)
\* An optional value: None, or Some(v).
None == <<>>

Some(v) == <<v>>

\* The tool calls the model may emit during a turn: a Log with or without
\* the provider's name, an Edit of the sentiment, a Search and a scan.
TurnCalls ==
    {[name |-> "log_interaction", args |-> a] :
        a \in {m \in LogArgs :
                  /\ DOMAIN m \in {{"hcp_name", "type", "date"}, {"type", "date"}}
                  /\ "hcp_name" \in DOMAIN m => m.hcp_name = "Dr. Sharma"}}
    \cup {[name |-> "edit_interaction", args |-> a] :
            a \in {m \in EditArgs : DOMAIN m = {"sentiment"}}}
    \cup {[name |-> "search_hcp", args |-> [name_query |-> q]] :
            q \in {<<"x","y","z">>}}
    \cup {[name |-> "check_compliance", args |-> [text |-> t]] :
            t \in {<<"c","u","r","e">>}}

\* The tool_calls lists of one AI message: up to n calls, in order.
RECURSIVE Batches(_)
Batches(n) ==
    IF n = 0 THEN {<<>>}
    ELSE Batches(n - 1)
            \cup {Append(b, c) : b \in {x \in Batches(n - 1) : Len(x) = n - 1},
                                 c \in TurnCalls}

Logs(batch) ==
    Len(SelectSeq(batch, LAMBDA c : c.name = "log_interaction"))

\* messages = [SystemMessage(content=SYSTEM_PROMPT), ("user", req.message)]
FirstMessages ==
    <<[type |-> "system", content |-> "SYSTEM_PROMPT"],
      [type |-> "human", content |-> "message"]>>

\* The AI message whose tool calls are being executed.
Pending == messages[Len(messages) - (pos - 1)].tool_calls

\* A mutant of Keeps: the extraction without its test of the tool's name.
KeepsAll(name) ==
    TRUE

\* if tool['name'] in ['log_interaction', 'edit_interaction']
Keeps(name) ==
    name \in {"log_interaction", "edit_interaction"}

\* for tool in msg.tool_calls: ... extracted_data = tool['args']
RECURSIVE OverCalls(_, _)
OverCalls(calls, data) ==
    IF calls = <<>> THEN data
    ELSE OverCalls(Tail(calls),
                   IF Keeps(Head(calls).name) THEN Some(Head(calls).args)
                   ELSE data)

\* for msg in result["messages"]:
\*     if hasattr(msg, 'tool_calls') and msg.tool_calls: ...
RECURSIVE OverMessages(_, _)
OverMessages(msgs, data) ==
    IF msgs = <<>> THEN data
    ELSE OverMessages(Tail(msgs),
                      IF "tool_calls" \in DOMAIN Head(msgs)
                            /\ Head(msgs).tool_calls # <<>>
                      THEN OverCalls(Head(msgs).tool_calls, data)
                      ELSE data)

extracted_data(msgs) ==
    OverMessages(msgs, None)

\* result["messages"][-1].content
last_message(msgs) ==
    msgs[Len(msgs)].content

\* A request arrives: chat_endpoint builds the messages and invokes the agent.
\* The model follows one turn, from the empty table.
Request ==
    /\ phase = "Idle"
    /\ phase' = "Resolving"
    /\ messages' = FirstMessages
    /\ pos' = 0
    /\ executed' = <<>>
    /\ answer' = NoAnswer
    /\ last' = NoCall
    /\ UNCHANGED <<rows, text, scanned>>

\* The model answers with tool calls.
ResolveCalls ==
    \E batch \in Batches(MaxCalls - Len(executed)) :
        /\ phase = "Resolving"
        /\ batch # <<>>
        /\ Len(rows) + Logs(batch) <= MaxRows
        /\ messages' = Append(messages,
                              [type |-> "ai", content |-> "", tool_calls |-> batch])
        /\ pos' = 1
        /\ phase' = "Executing"
        /\ UNCHANGED <<rows, last, executed, answer, text, scanned>>

\* The model answers without tool calls: the agent ends, invoke() returns.
ResolveFinal ==
    /\ phase = "Resolving"
    /\ messages' = Append(messages,
                          [type |-> "ai", content |-> "reply", tool_calls |-> <<>>])
    /\ phase' = "Reconciling"
    /\ UNCHANGED <<rows, last, pos, executed, answer, text, scanned>>

\* The call of the model fails: invoke() raises, and so does chat_endpoint.
ResolveFails ==
    /\ phase = "Resolving"
    /\ phase' = "ResolverError"
    /\ UNCHANGED <<rows, last, messages, pos, executed, answer, text, scanned>>

\* The next tool call is executed and ends with a text for the model: the
\* tool returned one, or the agent made one of the call's rejection or of
\* the exception the tool raised. The text is last.text; the ToolMessage
\* that carries it is kept without it, as chat_endpoint never reads it.
ExecuteTool ==
    \E fault \in Faults :
        LET call == Pending[pos]
            out == Invoke(call.name, call.args, fault, rows)
        IN  /\ phase = "Executing"
            /\ rows' = out.rows
            /\ last' = Record(call.name, call.args, fault, rows)
            /\ executed' = Append(executed, call)
            /\ messages' = Append(messages, [type |-> "tool", name |-> call.name])
            /\ IF pos < Len(Pending)
               THEN pos' = pos + 1 /\ phase' = "Executing"
               ELSE pos' = 0 /\ phase' = "Resolving"
            /\ UNCHANGED <<answer, text, scanned>>

\* The next tool call raises and the agent lets the exception through:
\* invoke() raises, and so does chat_endpoint, which catches nothing.
ToolRaises ==
    \E fault \in Faults :
        LET call == Pending[pos]
            out == Invoke(call.name, call.args, fault, rows)
        IN  /\ phase = "Executing"
            /\ out.kind = "raise"
            /\ rows' = out.rows
            /\ last' = Record(call.name, call.args, fault, rows)
            /\ executed' = Append(executed, call)
            /\ phase' = "ToolError"
            /\ UNCHANGED <<messages, pos, answer, text, scanned>>

\* chat_endpoint, after invoke(): the reply and the extracted tool data.
Reconcile ==
    /\ phase = "Reconciling"
    /\ answer' = [response |-> last_message(messages),
                  form_data |-> extracted_data(messages),
                  sent |-> TRUE]
    /\ phase' = "Done"
    /\ UNCHANGED <<rows, last, messages, pos, executed, text, scanned>>

TurnNext ==
    \/ Request
    \/ ResolveCalls
    \/ ResolveFinal
    \/ ResolveFails
    \/ ExecuteTool
    \/ ToolRaises
    \/ Reconcile

TurnSpec == Init /\ [][TurnNext]_vars

(***************************************************************************)
(* check_compliance on its own, over the texts made of a few fragments.    *)
(***************************************************************************)
\* Pieces of notes: restricted terms in several cases, a term inside a
\* longer word, a term split over two pieces, clean text.
Fragments ==
    {<<"T","h","i","s"," ","d","r","u","g"," ","i","s"," ","a"," ">>,
     <<"M","I","R","A","C","L","E"," ">>,
     <<"c","u","r","e">>,
     <<"G","u","a","r","a","n","t","e","e">>,
     <<"O","f","f","-","L","a","b","e","l">>,
     <<"s","e">>,
     <<"m","i","r","a">>,
     <<"c","l","e"," ">>,
     <<"s","a","f","e"," ","d","o","s","e">>}

\* The texts of up to n fragments.
RECURSIVE TextsOf(_)
TextsOf(n) ==
    IF n = 0 THEN {<<>>}
    ELSE TextsOf(n - 1) \cup {t \o f : t \in TextsOf(n - 1), f \in Fragments}

Texts == TextsOf(MaxFrags)

ScanInit ==
    /\ rows = <<>>
    /\ last = NoCall
    /\ phase = "Idle"
    /\ messages = <<>>
    /\ pos = 0
    /\ executed = <<>>
    /\ answer = NoAnswer
    /\ text \in Texts
    /\ scanned = NoScan

Scan ==
    /\ ~scanned.done
    /\ scanned' = [done |-> TRUE, text |-> check_compliance(text, rows).text]
    /\ rows' = check_compliance(text, rows).rows
    /\ UNCHANGED <<last, phase, messages, pos, executed, answer, text>>

ScanNext == Scan

ScanSpec == ScanInit /\ [][ScanNext]_vars

(***************************************************************************)
(* What the claims speak of, said without the tools' own definitions.      *)
(***************************************************************************)
\* The position of the record with the highest identifier.
MaxIdPos(table) ==
    CHOOSE i \in 1..Len(table) : \A j \in 1..Len(table) : table[j].id <= table[i].id

\* The call passes parameter f, and not as the unset marker.
Supplied(args, f) ==
    f \in DOMAIN args /\ args[f] # "None"

\* The call passes parameter f with a value that is neither marker nor blank.
Named(args, f) ==
    f \in DOMAIN args /\ args[f] # "None" /\ args[f] # ""

Edited == last.op = "edit_interaction"

Logged == last.op = "log_interaction"

\* C1: an Edit with a non-empty update set leaves every field that was absent
\* or passed as the unset marker as it was on the record with the highest
\* identifier, and, when it reports success, every named field holds the
\* value passed.
C1_EditKeepsUnnamedFields ==
    (Edited /\ \E f \in FieldSet : Supplied(last.args, f)) =>
        /\ Len(rows) = Len(last.before)
        /\ rows # <<>> =>
             LET i == MaxIdPos(last.before)
             IN  /\ rows[i].id = last.before[i].id
                 /\ \A f \in FieldSet :
                      /\ ~Supplied(last.args, f) =>
                           rows[i][Column(f)] = last.before[i][Column(f)]
                      /\ (Named(last.args, f)
                            /\ last.text = "Interaction updated in database.") =>
                           rows[i][Column(f)] = last.args[f]

\* C1's case: after Log(topics = "A"), Edit(sentiment = "Positive") has set
\* the sentiment and kept the topics.
C1_Witness ==
    /\ Edited
    /\ last.args = [sentiment |-> "Positive"]
    /\ last.before # <<>>
    /\ last.before[Len(rows)].topics_discussed = "A"
    /\ last.before[Len(rows)].sentiment = "None"
    /\ rows[Len(rows)].topics_discussed = "A"
    /\ rows[Len(rows)].sentiment = "Positive"

\* C2: an Edit changes no record but the one with the highest identifier,
\* and neither adds nor removes a record.
C2_EditTouchesOnlyLatest ==
    Edited =>
        /\ Len(rows) = Len(last.before)
        /\ \A i \in 1..Len(last.before) :
             i # MaxIdPos(last.before) => rows[i] = last.before[i]

\* C2's case: two records logged, then an Edit that changed the second and
\* left the first as it was logged.
C2_Witness ==
    /\ Edited
    /\ Len(rows) = 2
    /\ rows[2].id > rows[1].id
    /\ rows[2] # last.before[2]
    /\ rows[1] = last.before[1]

\* C3: an Edit whose update set is empty (every field absent or the unset
\* marker) never calls the store, leaves the records as they were and
\* results in "No changes requested."
C3_EmptyEditNeverCallsStore ==
    (Edited /\ \A f \in FieldSet : ~Supplied(last.args, f)) =>
        /\ last.calls = <<>>
        /\ rows = last.before
        /\ last.text = "No changes requested."

C7_EditOfEmptyTableFails ==
    (Edited /\ last.before = <<>> /\ \E f \in FieldSet : Named(last.args, f)) =>
        /\ last.text # "Interaction updated in database."
        /\ rows = <<>>

\* C8: a Log whose provider name is missing or the unset marker is rejected
\* before any store call: no store call, no record, no success message.
C8_LogWithoutProviderRejected ==
    (Logged /\ ~Supplied(last.args, "hcp_name")) =>
        /\ last.calls = <<>>
        /\ rows = last.before
        /\ last.text # "Interaction logged successfully."

(***************************************************************************)
(* The turn's claims.                                                      *)
(***************************************************************************)
\* The tool calls of the AI messages so far, in the order emitted.
RECURSIVE Emitted(_)
Emitted(msgs) ==
    IF msgs = <<>> THEN <<>>
    ELSE (IF Head(msgs).type = "ai" THEN Head(msgs).tool_calls ELSE <<>>)
            \o Emitted(Tail(msgs))

\* The positions of the executed calls that are a Log or an Edit.
Mutations ==
    {i \in 1..Len(executed) :
        executed[i].name = "log_interaction" \/ executed[i].name = "edit_interaction"}

\* C5: the snapshot returned with the turn's result is the argument mapping
\* of the last executed Log or Edit invocation, whatever Search or
\* compliance invocations surround it, and is absent when none was executed.
C5_SnapshotIsLastMutation ==
    phase = "Done" =>
        /\ answer.sent
        /\ IF Mutations = {}
           THEN answer.form_data = <<>>
           ELSE \E i \in Mutations :
                  /\ \A j \in Mutations : j <= i
                  /\ answer.form_data = <<executed[i].args>>

\* C5's case: a turn that executed Search, Log, Search returned the Log's
\* arguments.
C5_Witness ==
    /\ phase = "Done"
    /\ Len(executed) = 3
    /\ executed[1].name = "search_hcp"
    /\ executed[2].name = "log_interaction"
    /\ executed[3].name = "search_hcp"
    /\ answer.form_data = <<executed[2].args>>

\* C6: a store failure inside an invocation becomes that invocation's text
\* result and is never raised out of the operation, so that the turn goes on.
C6_StoreFailureBecomesText ==
    (last.op # "none" /\ last.fault # "none") =>
        /\ last.kind = "return"
        /\ phase # "ToolError"

\* C10: the phases of a turn are in order (the calls executed are the calls
\* emitted, in their order; reconciliation comes after the last of them),
\* and a turn whose model calls returned does not end without reconciling.
C10_TurnIsSequentialAndReconciles ==
    /\ Len(executed) <= Len(Emitted(messages))
    /\ executed = SubSeq(Emitted(messages), 1, Len(executed))
    /\ phase \in {"Reconciling", "Done"} => executed = Emitted(messages)
    /\ phase # "ToolError"

(***************************************************************************)
(* The scan's claim.                                                       *)
(***************************************************************************)
\* Two characters that are the same letter, whatever their case.
SameLetter(a, b) ==
    a = b \/ \E k \in 1..26 : {a, b} = {Upper[k], LowerCase[k]}

\* The text holds the term somewhere, letter case ignored.
Holds(term) ==
    \E i \in 1..Len(text) :
        /\ i + Len(Chars(term)) - 1 <= Len(text)
        /\ \A j \in 1..Len(Chars(term)) : SameLetter(text[i + j - 1], Chars(term)[j])

\* The terms the text holds, in the order of the fixed list.
TermsHeld ==
    (IF Holds("guarantee") THEN <<"guarantee">> ELSE <<>>)
    \o (IF Holds("cure") THEN <<"cure">> ELSE <<>>)
    \o (IF Holds("miracle") THEN <<"miracle">> ELSE <<>>)
    \o (IF Holds("off-label") THEN <<"off-label">> ELSE <<>>)

\* C9: the scan reports exactly the terms of the fixed list the text holds,
\* letter case ignored, in the list's order; it reports none for a text
\* that holds none; and it leaves the store as it was.
C9_ScanReportsTermsHeld ==
    scanned.done =>
        /\ scanned.text =
              IF TermsHeld = <<>> THEN "Compliance Check Passed."
              ELSE "COMPLIANCE WARNING: Found restricted terms: "
                      \o PyList(TermsHeld) \o ". Please rephrase."
        /\ rows = <<>>

\* C9's case: "This drug is a MIRACLE cure" is reported with cure, then
\* miracle.
C9_Witness ==
    /\ scanned.done
    /\ text = <<"T","h","i","s"," ","d","r","u","g"," ","i","s"," ","a"," ",
                "M","I","R","A","C","L","E"," ","c","u","r","e">>
    /\ scanned.text = "COMPLIANCE WARNING: Found restricted terms: "
                         \o "['cure', 'miracle']. Please rephrase."

====
